---- MODULE Spec2Model ----
(***************************************************************************)
(* Model of the Revalida question extractor:                               *)
(*   pdf_extractor_complete.py  RevalidaPDFExtractor (segmentation,        *)
(*                              parsing, answer key, assembly)             *)
(*   fix_extraction.py          extract_options_from_stem, fix_json_file   *)
(*   api.py                     fix_empty_options, the request handlers    *)
(*                                                                         *)
(* A text is a sequence of elements [ch, n].  An element is one character  *)
(* (n = 1), a run of n lower-case letters (ch = "x"), a fragment of n      *)
(* upper-case letters that is no keyword (ch = "Z"), or one upper-case     *)
(* keyword of the layouts (QUESTAO, AREA, LIVRE, PAGE, PRIMEIRA, SEGUNDA,  *)
(* EDICAO, GABARITO, RESPOSTAS, RESPOSTA, OFICIAL) with n its number of    *)
(* characters.  An element with ch = "IDOT" is a run of n capital letters I *)
(* with a dot above (U+0130), the letter whose lower-case form is two       *)
(* characters long.  Every regular expression of the source is an operator *)
(* that scans such a sequence the way Python's re module scans the string. *)
(*                                                                         *)
(* Three specifications share the variables:                               *)
(*   SpecRecord    one block parsed into a record, then the two repairs    *)
(*   SpecDocument  one run of extract_questions over a document            *)
(*   SpecApi       the server answering POST /extract while time passes    *)
(***************************************************************************)
EXTENDS Integers, Sequences, FiniteSets, TLC

VARIABLES
    raw_block,   \* the text of the block under parsing
    questions,   \* the collection of question dicts parsed / under repair
    before,      \* history: the collection as it was before the repair pass
    pc,          \* which operation has acted last
    pdf,         \* the document: its pages, each a text and a number of images
    gabarito_file, \* the text of the separate answer-key file, <<>> for none
    run,         \* the locals of one run of extract_questions
    clock,       \* the wall clock of the server, in seconds
    fs,          \* the extraction directories: extraction id -> content
    log,         \* history: the POST requests served, each with its response
    reply,       \* the response to the last GET or DELETE request, and how
                 \* many of these requests were served
    deleted      \* history: the ids deleted since the last POST that used them

vars == <<raw_block, questions, before, pc, pdf, gabarito_file, run, clock, fs, log,
          reply, deleted>>
document_vars == <<pdf, gabarito_file, run>>
server_vars == <<clock, fs, log, reply, deleted>>

----------------------------------------------------------------------------
(* Characters and character classes                                        *)

C(c) == [ch |-> c, n |-> 1]
Run(k) == [ch |-> "x", n |-> k]
IDot(k) == [ch |-> "IDOT", n |-> k]
Atom(w) ==
    [ch |-> w,
     n  |-> CASE w = "QUESTAO"  -> 7
              [] w = "AREA"     -> 4
              [] w = "LIVRE"    -> 5
              [] w = "PAGE"     -> 4
              [] w = "PRIMEIRA" -> 8
              [] w = "SEGUNDA"  -> 7
              [] w = "EDICAO"   -> 6
              [] w = "GABARITO" -> 8
              [] w = "RESPOSTAS" -> 9
              [] w = "RESPOSTA" -> 8
              [] w = "OFICIAL"  -> 7
              [] OTHER          -> 1]

LETTERS == <<"A", "B", "C", "D", "E">>
LetterSet == {"A", "B", "C", "D", "E"}
Keywords == {"QUESTAO", "AREA", "LIVRE", "PAGE", "PRIMEIRA", "SEGUNDA", "EDICAO",
             "GABARITO", "RESPOSTAS", "RESPOSTA", "OFICIAL"}
Digits == {"0", "1", "2", "3", "4", "5", "6", "7", "8", "9"}

\* \s of Python's re
IsSpace(e) == e.ch \in {" ", "\n", "\t", "\r"}
\* [A-E] : one bare option letter
IsLetter(e) == e.ch \in LetterSet /\ e.n = 1
\* \d
IsDigit(e) == e.ch \in Digits
\* [.)\-]
IsMarkPunct(e) == e.ch \in {".", ")", "-"}
\* the first character of the element is in [A-ZÁÀÂÃÉÈÊÍÏÓÔÕÖÚÇÑ]
IsUpper(e) == e.ch \in LetterSet \cup {"Z"} \cup Keywords
\* \w : the characters between which \b finds no boundary
IsWordCh(e) == e.ch \in LetterSet \cup {"x", "Z", "IDOT"} \cup Keywords \cup Digits

Min(S) == CHOOSE m \in S : \A k \in S : m <= k
Max(S) == CHOOSE m \in S : \A k \in S : m >= k

\* len(text)
RECURSIVE TextLen(_)
TextLen(s) == IF s = <<>> THEN 0 ELSE Head(s).n + TextLen(Tail(s))

\* text[i-1:] and text[:i-1] for a 1-based element index i
From(s, i) == SubSeq(s, i, Len(s))
Upto(s, i) == SubSeq(s, 1, i - 1)

\* first index >= i that holds no whitespace (Len(s)+1 when none): greedy \s*
RECURSIVE SkipWs(_, _)
SkipWs(s, i) ==
    IF i <= Len(s) /\ IsSpace(s[i]) THEN SkipWs(s, i + 1) ELSE i

\* str.strip()
RECURSIVE RStrip(_)
RStrip(s) ==
    IF s # <<>> /\ IsSpace(s[Len(s)]) THEN RStrip(SubSeq(s, 1, Len(s) - 1)) ELSE s
Strip(s) == RStrip(From(s, SkipWs(s, 1)))

\* re.sub(r'\s+', ' ', text)
RECURSIVE CollapseWs(_)
CollapseWs(s) ==
    IF s = <<>> THEN <<>>
    ELSE IF IsSpace(s[1]) THEN <<C(" ")>> \o CollapseWs(From(s, SkipWs(s, 1)))
    ELSE <<s[1]>> \o CollapseWs(Tail(s))

\* the leftmost index of s at which pattern P matches, 0 when re.search finds none
FirstMatch(s, P(_, _)) ==
    IF \E i \in 1..Len(s) : P(s, i) THEN Min({i \in 1..Len(s) : P(s, i)}) ELSE 0

\* ^ under re.MULTILINE
LineStart(s, i) == i = 1 \/ s[i - 1].ch = "\n"
IsBareA(e) == e.ch = "A" /\ e.n = 1

----------------------------------------------------------------------------
(* Option repair: fix_extraction.extract_options_from_stem and the copy of *)
(* it inlined in api.fix_empty_options                                     *)

\* \s*A\s+(?=[A-Z...]) from index j
BareAUpperFrom(s, j) ==
    LET a == SkipWs(s, j) IN
        /\ a + 1 <= Len(s)
        /\ IsBareA(s[a])
        /\ IsSpace(s[a + 1])
        /\ LET u == SkipWs(s, a + 1) IN u <= Len(s) /\ IsUpper(s[u])

\* r'(?:^|\n)\s*A\s+(?=[A-ZÁÀÂÃÉÈÊÍÏÓÔÕÖÚÇÑ])', re.MULTILINE
Pattern1At(s, i) ==
    \/ LineStart(s, i) /\ BareAUpperFrom(s, i)
    \/ s[i].ch = "\n" /\ BareAUpperFrom(s, i + 1)

\* r'\s+A\s+'
Pattern2At(s, i) ==
    /\ IsSpace(s[i])
    /\ LET a == SkipWs(s, i) IN
           a + 1 <= Len(s) /\ IsBareA(s[a]) /\ IsSpace(s[a + 1])

\* r'(?:^|\n)A\s', re.MULTILINE
Pattern3At(s, i) ==
    \/ LineStart(s, i) /\ i + 1 <= Len(s) /\ IsBareA(s[i]) /\ IsSpace(s[i + 1])
    \/ s[i].ch = "\n" /\ i + 2 <= Len(s) /\ IsBareA(s[i + 1]) /\ IsSpace(s[i + 2])

\* the three searches joined by `or`: the start of the first that matches
first_option(stem) ==
    LET m1 == FirstMatch(stem, Pattern1At)
        m2 == FirstMatch(stem, Pattern2At)
        m3 == FirstMatch(stem, Pattern3At)
    IN  IF m1 # 0 THEN m1 ELSE IF m2 # 0 THEN m2 ELSE m3

\* r'\s+([A-E])\s+'
LetterSepAt(s, i) ==
    /\ IsSpace(s[i])
    /\ LET a == SkipWs(s, i) IN
           a + 1 <= Len(s) /\ IsLetter(s[a]) /\ IsSpace(s[a + 1])

\* re.split(r'\s+([A-E])\s+', text): texts and captured letters in turn
RECURSIVE re_split_letters(_)
re_split_letters(s) ==
    LET i == FirstMatch(s, LetterSepAt) IN
        IF i = 0 THEN <<s>>
        ELSE LET a == SkipWs(s, i)
                 e == SkipWs(s, a + 1)
             IN  <<Upto(s, i), <<s[a]>>>> \o re_split_letters(From(s, e))

\* r'\s*ÁREA\s+LIVRE.*$'
AreaLivreAt(t, i) ==
    LET j == SkipWs(t, i) IN
        /\ j + 2 <= Len(t)
        /\ t[j].ch = "AREA"
        /\ IsSpace(t[j + 1])
        /\ LET k == SkipWs(t, j + 1) IN k <= Len(t) /\ t[k].ch = "LIVRE"

RECURSIVE SkipDigits(_, _)
SkipDigits(s, i) ==
    IF i <= Len(s) /\ IsDigit(s[i]) THEN SkipDigits(s, i + 1) ELSE i

ThreeDashesAt(t, j) ==
    j + 2 <= Len(t) /\ t[j].ch = "-" /\ t[j + 1].ch = "-" /\ t[j + 2].ch = "-"

\* r'\s*---\s*PAGE\s+\d+\s*---.*$'
PageMarkerAt(t, i) ==
    LET j == SkipWs(t, i) IN
        /\ ThreeDashesAt(t, j)
        /\ LET k == SkipWs(t, j + 3) IN
               /\ k + 1 <= Len(t)
               /\ t[k].ch = "PAGE"
               /\ IsSpace(t[k + 1])
               /\ LET m == SkipWs(t, k + 1)
                      d == SkipDigits(t, m)
                  IN  d > m /\ ThreeDashesAt(t, SkipWs(t, d))

\* r'\s*PRIMEIRA\s+EDI[ÇC][ÃA]O.*$' and r'\s*SEGUNDA\s+EDI[ÇC][ÃA]O.*$'
EditionAt(t, i, which) ==
    LET j == SkipWs(t, i) IN
        /\ j + 2 <= Len(t)
        /\ t[j].ch = which
        /\ IsSpace(t[j + 1])
        /\ LET k == SkipWs(t, j + 1) IN k <= Len(t) /\ t[k].ch = "EDICAO"
PrimeiraAt(t, i) == EditionAt(t, i, "PRIMEIRA")
SegundaAt(t, i) == EditionAt(t, i, "SEGUNDA")

\* re.sub(pattern + '.*$', '', text) on a text without line breaks
CutFrom(t, P(_, _)) ==
    LET i == FirstMatch(t, P) IN IF i = 0 THEN t ELSE Upto(t, i)

\* re.sub(r'^\.\s*', '', text)
DropLeadingDot(t) ==
    IF t # <<>> /\ t[1].ch = "." THEN From(t, SkipWs(t, 2)) ELSE t

\* the cleaning of one option text (fix_extraction.py 56-65, api.py 63-71)
CleanOption(part) ==
    LET t0 == Strip(CollapseWs(part))
        t1 == DropLeadingDot(t0)
        t2 == CutFrom(t1, AreaLivreAt)
        t3 == CutFrom(t2, PageMarkerAt)
        t4 == CutFrom(t3, PrimeiraAt)
        t5 == CutFrom(t4, SegundaAt)
    IN  Strip(t5)

NoOptions == [l \in LetterSet |-> <<>>]
EmptyMap == [k \in {} |-> <<>>]
\* dict.get(key, default)
Get(map, key, default) == IF key \in DOMAIN map THEN map[key] ELSE default
IsLetterPart(p) == Len(p) = 1 /\ IsLetter(p[1])

\* the loop over parts: st = [options, current_letter], "" for None
RECURSIVE AssignParts(_, _)
AssignParts(parts, st) ==
    IF parts = <<>> THEN st.options
    ELSE LET part == Strip(Head(parts)) IN
         IF part = <<>> THEN AssignParts(Tail(parts), st)
         ELSE IF IsLetterPart(part)
              THEN AssignParts(Tail(parts),
                               [st EXCEPT !.current_letter = part[1].ch])
         ELSE IF st.current_letter # ""
              THEN AssignParts(Tail(parts),
                       [options |-> (st.current_letter :> CleanOption(part))
                                        @@ st.options,
                        current_letter |-> ""])
         ELSE AssignParts(Tail(parts), st)

\* the dict of the letters found after a boundary at split_pos (1-based)
OptionsAfter(stem, split_pos) ==
    AssignParts(re_split_letters(Strip(From(stem, split_pos))),
                [options |-> EmptyMap, current_letter |-> ""])

extract_options_from_stem(stem) ==
    LET m == first_option(stem) IN
        IF m = 0
        THEN [stem_clean |-> stem,
              option_a |-> <<>>, option_b |-> <<>>, option_c |-> <<>>,
              option_d |-> <<>>, option_e |-> <<>>]
        ELSE LET options == OptionsAfter(stem, m) IN
             [stem_clean |-> Strip(Upto(stem, m)),
              option_a |-> Get(options, "A", <<>>),
              option_b |-> Get(options, "B", <<>>),
              option_c |-> Get(options, "C", <<>>),
              option_d |-> Get(options, "D", <<>>),
              option_e |-> Get(options, "E", <<>>)]

\* a guard that looks at option A alone
NeedsRepair_OnlyA(q) == q.options["A"] = <<>>

\* not q['options']['A'] and not q['options']['B']
NeedsRepair(q) == q.options["A"] = <<>> /\ q.options["B"] = <<>>

\* a write-back of the letters found only
WriteBack_FoundOnly(options) == options

\* q['options'] = {'A': options.get('A', ''), ..., 'E': options.get('E', '')}
WriteBack(options) == [l \in LetterSet |-> Get(options, l, <<>>)]

\* one iteration of the loop of api.fix_empty_options
ApiFixOne(q) ==
    IF NeedsRepair(q)
    THEN LET m == first_option(q.stem) IN
             IF m # 0
             THEN LET options == OptionsAfter(q.stem, m) IN
                  [q EXCEPT !.stem = Strip(Upto(q.stem, m)),
                            !.options = WriteBack(options)]
             ELSE q
    ELSE q

fix_empty_options(questions_data) ==
    [i \in 1..Len(questions_data) |-> ApiFixOne(questions_data[i])]

\* one iteration of the loop of fix_extraction.fix_json_file
BatchFixOne(q) ==
    IF NeedsRepair(q)
    THEN LET result == extract_options_from_stem(q.stem) IN
             IF result.option_a # <<>> \/ result.option_b # <<>>
             THEN [q EXCEPT !.stem = result.stem_clean,
                            !.options = [A |-> result.option_a,
                                         B |-> result.option_b,
                                         C |-> result.option_c,
                                         D |-> result.option_d,
                                         E |-> result.option_e]]
             ELSE q
    ELSE q

\* the questions of the file after fix_json_file (it returns before the loop
\* when no question needs a fix)
fix_json_file(qs) ==
    IF \A i \in 1..Len(qs) : ~NeedsRepair(qs[i]) THEN qs
    ELSE [i \in 1..Len(qs) |-> BatchFixOne(qs[i])]

----------------------------------------------------------------------------
(* Question Parser: RevalidaPDFExtractor.parse_question_block              *)

MAX_STEM_LENGTH == 8000

\* the first k characters of one element that is longer than k
Prefix(e, k) ==
    IF e.ch = "x" THEN Run(k)
    ELSE IF e.ch = "EDICAO" /\ k = 1 THEN C("E")
    ELSE [ch |-> "Z", n |-> k]

\* text[:k], k counted in characters
RECURSIVE Take(_, _)
Take(s, k) ==
    IF s = <<>> \/ k <= 0 THEN <<>>
    ELSE IF Head(s).n <= k THEN <<Head(s)>> \o Take(Tail(s), k - Head(s).n)
    ELSE <<Prefix(Head(s), k)>>

\* text.replace('\r\n', '\n').replace('\r', '\n')
RECURSIVE NormalizeNewlines(_)
NormalizeNewlines(s) ==
    IF s = <<>> THEN <<>>
    ELSE IF s[1].ch = "\r"
         THEN IF Len(s) >= 2 /\ s[2].ch = "\n"
              THEN <<C("\n")>> \o NormalizeNewlines(From(s, 3))
              ELSE <<C("\n")>> \o NormalizeNewlines(Tail(s))
    ELSE <<s[1]>> \o NormalizeNewlines(Tail(s))

IsBlank(e) == e.ch \in {" ", "\t"}
RECURSIVE SkipBlanks(_, _)
SkipBlanks(s, i) ==
    IF i <= Len(s) /\ IsBlank(s[i]) THEN SkipBlanks(s, i + 1) ELSE i

\* re.sub(r'[ \t]+', ' ', block)
RECURSIVE CollapseBlanks(_)
CollapseBlanks(s) ==
    IF s = <<>> THEN <<>>
    ELSE IF IsBlank(s[1]) THEN <<C(" ")>> \o CollapseBlanks(From(s, SkipBlanks(s, 1)))
    ELSE <<s[1]>> \o CollapseBlanks(Tail(s))

RECURSIVE SkipSpaces(_, _)
SkipSpaces(s, i) ==
    IF i <= Len(s) /\ s[i].ch = " " THEN SkipSpaces(s, i + 1) ELSE i

\* re.sub(r'\n +\n', '\n\n', block): matches do not overlap
RECURSIVE DropBlankLines(_)
DropBlankLines(s) ==
    IF s = <<>> THEN <<>>
    ELSE LET e == SkipSpaces(s, 2) IN
         IF s[1].ch = "\n" /\ e > 2 /\ e <= Len(s) /\ s[e].ch = "\n"
         THEN <<C("\n"), C("\n")>> \o DropBlankLines(From(s, e + 1))
         ELSE <<s[1]>> \o DropBlankLines(Tail(s))

preprocess_block(block) ==
    Strip(DropBlankLines(CollapseBlanks(NormalizeNewlines(block))))

normalize_text(text) == Strip(CollapseWs(text))

\* a boundary that accepts a bare letter A followed by whitespace
FirstOptionAt_BareLetter(s, i) ==
    /\ s[i].ch = "\n"
    /\ LET a == SkipWs(s, i + 1) IN
           /\ a < Len(s)
           /\ IsBareA(s[a])
           /\ (IsSpace(s[a + 1]) \/ IsMarkPunct(s[SkipWs(s, a + 1)]))

\* r'\n\s*A\s*[.)\-]\s*'
FirstOptionAt(s, i) ==
    /\ s[i].ch = "\n"
    /\ LET a == SkipWs(s, i + 1) IN
           /\ a <= Len(s)
           /\ IsBareA(s[a])
           /\ LET p == SkipWs(s, a + 1) IN p <= Len(s) /\ IsMarkPunct(s[p])

\* the index after at most three digits from k: \d{1,3}
UptoThreeDigits(s, k) == IF SkipDigits(s, k) > k + 3 THEN k + 3 ELSE SkipDigits(s, k)

\* re.sub(r'^\s*QUEST[ÃAÀ]O\s*\d{1,3}\s*[\s:\-]?\s*', '', stem, flags=re.IGNORECASE)
StripHeader(s) ==
    LET j == SkipWs(s, 1) IN
        IF j <= Len(s) /\ s[j].ch = "QUESTAO"
        THEN LET k == SkipWs(s, j + 1)
                 d == UptoThreeDigits(s, k)
                 p == SkipWs(s, d)
                 e == IF p <= Len(s) /\ s[p].ch \in {":", "-"}
                      THEN SkipWs(s, p + 1) ELSE p
             IN  IF d > k THEN From(s, e) ELSE s
        ELSE s

\* r'\n\s*[A-E]\s*[.)\-]' : an option marker at a line start
OptionMarkAt(s, i) ==
    /\ s[i].ch = "\n"
    /\ LET a == SkipWs(s, i + 1) IN
           /\ a <= Len(s)
           /\ IsLetter(s[a])
           /\ LET p == SkipWs(s, a + 1) IN p <= Len(s) /\ IsMarkPunct(s[p])

MarkLetter(s, i) == SkipWs(s, i + 1)
MarkPunct(s, i) == SkipWs(s, MarkLetter(s, i) + 1)

\* option_pattern matches at i: a marker and at least one character after it
OptionPatternAt(s, i) == OptionMarkAt(s, i) /\ MarkPunct(s, i) < Len(s)

\* where group 2 of option_pattern begins: after the greedy \s*, which gives
\* back one character when the whitespace runs to the end of the text
Group2Start(s, i) ==
    LET q == SkipWs(s, MarkPunct(s, i) + 1) IN IF q > Len(s) THEN Len(s) ELSE q

\* the index after group 2: the lazy .+? stops at the first later position
\* where the lookahead (?=\n\s*[A-E]\s*[.)\-]|\Z) holds
Group2End(s, i) ==
    LET q == Group2Start(s, i)
        stops == {e \in (q + 1)..Len(s) : OptionMarkAt(s, e)}
    IN  IF stops = {} THEN Len(s) + 1 ELSE Min(stops)

\* re.split(r'\n\s*[A-E]\s*[.)\-]', text)[0]
BeforeFirstMark(text) ==
    LET i == FirstMatch(text, OptionMarkAt) IN IF i = 0 THEN text ELSE Upto(text, i)

\* the loop over option_pattern.finditer(option_section)
RECURSIVE AssignMatches(_, _)
AssignMatches(section, options) ==
    LET i == FirstMatch(section, OptionPatternAt) IN
        IF i = 0 THEN options
        ELSE LET letter == section[MarkLetter(section, i)].ch
                 e == Group2End(section, i)
                 group2 == SubSeq(section, Group2Start(section, i), e - 1)
                 text == normalize_text(BeforeFirstMark(Strip(group2)))
             IN  AssignMatches(From(section, e),
                               IF text # <<>> THEN [options EXCEPT ![letter] = text]
                               ELSE options)

\* a returned dict whose stem is not cut
ParsedDict_NoCap(stem, options) ==
    [stem |-> stem,
     option_a |-> Get(options, "A", <<>>),
     option_b |-> Get(options, "B", <<>>),
     option_c |-> Get(options, "C", <<>>),
     option_d |-> Get(options, "D", <<>>),
     option_e |-> Get(options, "E", <<>>)]

\* the dict parse_question_block returns
ParsedDict(stem, options) ==
    [stem |-> Take(stem, MAX_STEM_LENGTH),
     option_a |-> Get(options, "A", <<>>),
     option_b |-> Get(options, "B", <<>>),
     option_c |-> Get(options, "C", <<>>),
     option_d |-> Get(options, "D", <<>>),
     option_e |-> Get(options, "E", <<>>)]

parse_question_block(raw) ==
    LET block == preprocess_block(raw)
        m == FirstMatch(block, FirstOptionAt)
    IN  IF m # 0
        THEN ParsedDict(normalize_text(StripHeader(Upto(block, m))),
                        AssignMatches(From(block, m), NoOptions))
        ELSE ParsedDict(normalize_text(StripHeader(block)), NoOptions)

----------------------------------------------------------------------------
(* Block Segmenter: RevalidaPDFExtractor.split_into_question_blocks        *)

MIN_QUESTION == 1
MAX_QUESTION == 200

DigitVal(c) ==
    CASE c = "0" -> 0 [] c = "1" -> 1 [] c = "2" -> 2 [] c = "3" -> 3
      [] c = "4" -> 4 [] c = "5" -> 5 [] c = "6" -> 6 [] c = "7" -> 7
      [] c = "8" -> 8 [] c = "9" -> 9

\* int(text[i-1:j-1]) for a run of digits
RECURSIVE ToInt(_, _, _)
ToInt(s, i, j) == IF j <= i THEN 0 ELSE 10 * ToInt(s, i, j - 1) + DigitVal(s[j - 1].ch)

\* QUESTION_HEADER_REGEX = r'\n\s*QUEST[ÃAÀ]O\s*(\d{1,3})\s*[\s:\-]?', re.IGNORECASE
HeaderKeyword(s, i) == SkipWs(s, i + 1)
HeaderDigits(s, i) == SkipWs(s, HeaderKeyword(s, i) + 1)
HeaderAt(s, i) ==
    /\ s[i].ch = "\n"
    /\ HeaderKeyword(s, i) <= Len(s)
    /\ s[HeaderKeyword(s, i)].ch = "QUESTAO"
    /\ UptoThreeDigits(s, HeaderDigits(s, i)) > HeaderDigits(s, i)
HeaderNumber(s, i) ==
    ToInt(s, HeaderDigits(s, i), UptoThreeDigits(s, HeaderDigits(s, i)))
\* the index after the match
HeaderEnd(s, i) ==
    LET p == SkipWs(s, UptoThreeDigits(s, HeaderDigits(s, i))) IN
        IF p <= Len(s) /\ s[p].ch \in {":", "-"} THEN p + 1 ELSE p

\* list(QUESTION_HEADER_REGEX.finditer(text)) from index `from` on
RECURSIVE HeaderMatches(_, _)
HeaderMatches(s, from) ==
    LET hits == {i \in from..Len(s) : HeaderAt(s, i)} IN
        IF hits = {} THEN <<>>
        ELSE LET i == Min(hits) IN
             <<[start |-> i, number |-> HeaderNumber(s, i)]>>
                 \o HeaderMatches(s, HeaderEnd(s, i))

\* '--- PAGE ' at index i
PageLiteralAt(s, i) ==
    /\ i + 5 <= Len(s)
    /\ ThreeDashesAt(s, i)
    /\ s[i + 3].ch = " " /\ s[i + 4].ch = "PAGE" /\ s[i + 5].ch = " "

\* text[:start-1].count('--- PAGE ')
CountPageMarkers(s, start) ==
    Cardinality({i \in 1..(start - 1) : i + 5 <= start - 1 /\ PageLiteralAt(s, i)})

InRange(num) == MIN_QUESTION <= num /\ num <= MAX_QUESTION

RECURSIVE BlocksFrom(_, _, _)
BlocksFrom(text, matches, i) ==
    IF i > Len(matches) THEN <<>>
    ELSE IF ~InRange(matches[i].number) THEN BlocksFrom(text, matches, i + 1)
    ELSE LET start == matches[i].start
             end == IF i + 1 <= Len(matches) THEN matches[i + 1].start
                    ELSE Len(text) + 1
             page_markers == CountPageMarkers(text, start)
         IN  <<[number |-> matches[i].number,
                block |-> SubSeq(text, start, end - 1),
                page |-> IF page_markers > 1 THEN page_markers ELSE 1]>>
                 \o BlocksFrom(text, matches, i + 1)

split_into_question_blocks(text) == BlocksFrom(text, HeaderMatches(text, 1), 1)

----------------------------------------------------------------------------
(* Answer Key Extractor: RevalidaPDFExtractor.extract_gabarito             *)

GABARITO_TAIL == 3000

\* the last k characters of one element that is longer than k
Suffix(e, k) ==
    IF e.ch = "x" THEN Run(k)
    ELSE IF e.ch = "IDOT" THEN IDot(k)
    ELSE IF k = 1 /\ e.ch \in {"AREA", "PRIMEIRA", "SEGUNDA", "RESPOSTA"} THEN C("A")
    ELSE IF k = 1 /\ e.ch \in {"LIVRE", "PAGE"} THEN C("E")
    ELSE [ch |-> "Z", n |-> k]

\* text[-k:], k counted in characters
RECURSIVE TakeLast(_, _)
TakeLast(s, k) ==
    IF s = <<>> \/ k <= 0 THEN <<>>
    ELSE LET e == s[Len(s)] IN
         IF e.n <= k THEN TakeLast(SubSeq(s, 1, Len(s) - 1), k - e.n) \o <<e>>
         ELSE <<Suffix(e, k)>>

\* text[k:], k counted in characters
RECURSIVE DropChars(_, _)
DropChars(s, k) ==
    IF k <= 0 \/ s = <<>> THEN s
    ELSE IF s[1].n <= k THEN DropChars(Tail(s), k - s[1].n)
    ELSE <<Suffix(s[1], s[1].n - k)>> \o Tail(s)

\* len(text.lower())
RECURSIVE LowerLen(_)
LowerLen(s) ==
    IF s = <<>> THEN 0
    ELSE (IF s[1].ch = "IDOT" THEN 2 * s[1].n ELSE s[1].n) + LowerLen(Tail(s))

\* a marker of the answer-key section begins at element i
MarkerAt(s, i) ==
    \/ s[i].ch = "GABARITO"
    \/ s[i].ch = "RESPOSTAS"
    \/ /\ s[i].ch = "RESPOSTA"
       /\ i + 2 <= Len(s) /\ s[i + 1].ch = " " /\ s[i + 2].ch = "OFICIAL"
\* max of lower.rfind(marker) over the three markers: the offset, counted
\* in characters of the lower-cased text, of the last marker (-1: not found)
gabarito_index(s) ==
    IF \E i \in 1..Len(s) : MarkerAt(s, i)
    THEN LowerLen(Upto(s, Max({i \in 1..Len(s) : MarkerAt(s, i)}))) ELSE -1

\* a section that is always the last 3000 characters, marker or not
gabarito_section_TailOnly(text) == TakeLast(text, GABARITO_TAIL)

\* text[gabarito_index:] or text[-3000:]: the offset found in the lower-cased
\* text is applied to the text itself
gabarito_section(text) ==
    IF gabarito_index(text) >= 0 THEN DropChars(text, gabarito_index(text))
    ELSE TakeLast(text, GABARITO_TAIL)

\* r'\b(\d{1,3})\s*[-\s.]?\s*([A-E])\b' : where the letter stands
AnswerLetter(s, i) ==
    LET p == SkipWs(s, SkipDigits(s, i)) IN
        IF p <= Len(s) /\ s[p].ch \in {"-", "."} THEN SkipWs(s, p + 1) ELSE p
AnswerAt(s, i) ==
    /\ IsDigit(s[i])
    /\ (i = 1 \/ ~IsWordCh(s[i - 1]))
    /\ SkipDigits(s, i) - i <= 3
    /\ LET l == AnswerLetter(s, i) IN
           /\ l <= Len(s)
           /\ IsLetter(s[l])
           /\ (l = Len(s) \/ ~IsWordCh(s[l + 1]))

\* a loop in which the first match of a number is kept
RECURSIVE AnswersFrom_FirstWins(_, _, _)
AnswersFrom_FirstWins(s, from, gabarito) ==
    LET hits == {i \in from..Len(s) : AnswerAt(s, i)} IN
        IF hits = {} THEN gabarito
        ELSE LET i == Min(hits)
                 num == ToInt(s, i, SkipDigits(s, i))
                 l == AnswerLetter(s, i)
             IN  AnswersFrom_FirstWins(s, l + 1,
                     IF InRange(num) THEN gabarito @@ (num :> s[l].ch)
                     ELSE gabarito)

\* the loop over pattern.finditer(section): later matches overwrite
RECURSIVE AnswersFrom(_, _, _)
AnswersFrom(s, from, gabarito) ==
    LET hits == {i \in from..Len(s) : AnswerAt(s, i)} IN
        IF hits = {} THEN gabarito
        ELSE LET i == Min(hits)
                 num == ToInt(s, i, SkipDigits(s, i))
                 l == AnswerLetter(s, i)
             IN  AnswersFrom(s, l + 1,
                             IF InRange(num) THEN (num :> s[l].ch) @@ gabarito
                             ELSE gabarito)

extract_gabarito(text) == AnswersFrom(gabarito_section(text), 1, EmptyMap)

----------------------------------------------------------------------------
(* Page source, Image Associator and Assembler:                            *)
(* extract_text_and_images, associate_images_to_questions,                 *)
(* extract_questions                                                       *)

\* str(n) for n >= 0
DigitCh(d) ==
    CASE d = 0 -> "0" [] d = 1 -> "1" [] d = 2 -> "2" [] d = 3 -> "3"
      [] d = 4 -> "4" [] d = 5 -> "5" [] d = 6 -> "6" [] d = 7 -> "7"
      [] d = 8 -> "8" [] d = 9 -> "9"
RECURSIVE Str(_)
Str(n) == IF n < 10 THEN <<C(DigitCh(n))>> ELSE Str(n \div 10) \o <<C(DigitCh(n % 10))>>

\* f"\n--- PAGE {page_num + 1} ---\n"
PageDelimiter(n) ==
    <<C("\n"), C("-"), C("-"), C("-"), C(" "), Atom("PAGE"), C(" ")>> \o Str(n)
        \o <<C(" "), C("-"), C("-"), C("-"), C("\n")>>

\* the text of a document: pages is a sequence of [text, images], images the
\* number of images embedded in the page
RECURSIVE FullText(_, _)
FullText(pages, n) ==
    IF n = 0 THEN <<>>
    ELSE FullText(pages, n - 1) \o PageDelimiter(n) \o pages[n].text

\* a reference that names the file and no directory
ImagePath_NoDir(images_dir, page, index) == [dir |-> 0, page |-> page, img |-> index]

\* str(images_dir / f"page_{page}_img_{index}.{ext}")
ImagePath(images_dir, page, index) == [dir |-> images_dir, page |-> page, img |-> index]

PageImages(pages, images_dir) ==
    [p \in {q \in 1..Len(pages) : pages[q].images > 0} |->
        [k \in 1..pages[p].images |-> ImagePath(images_dir, p, k)]]

extract_text_and_images(pages, images_dir) ==
    [full_text |-> FullText(pages, Len(pages)),
     page_images |-> PageImages(pages, images_dir)]

RECURSIVE AssociateFrom(_, _, _, _)
AssociateFrom(question_blocks, page_images, i, question_images) ==
    IF i > Len(question_blocks) THEN question_images
    ELSE LET b == question_blocks[i] IN
         AssociateFrom(question_blocks, page_images, i + 1,
             (b.number :> (IF b.page \in DOMAIN page_images
                           THEN page_images[b.page] ELSE <<>>))
                 @@ question_images)

associate_images_to_questions(question_blocks, page_images) ==
    AssociateFrom(question_blocks, page_images, 1, EmptyMap)

DEFAULT_LETTER == "A"

\* one iteration of the loop of extract_questions
AssembleQuestion(b, gabarito, question_images) ==
    LET parsed == parse_question_block(b.block)
        images == Get(question_images, b.number, <<>>)
    IN  [number |-> b.number,
         stem |-> parsed.stem,
         option_a |-> parsed.option_a,
         option_b |-> parsed.option_b,
         option_c |-> parsed.option_c,
         option_d |-> parsed.option_d,
         option_e |-> parsed.option_e,
         correct_letter |-> Get(gabarito, b.number, DEFAULT_LETTER),
         images |-> images,
         has_image |-> Len(images) > 0]

\* a sort that puts a record before the records of its own number
RECURSIVE InsertByNumber_Unstable(_, _)
InsertByNumber_Unstable(sorted, q) ==
    IF sorted = <<>> THEN <<q>>
    ELSE IF sorted[Len(sorted)].number < q.number THEN Append(sorted, q)
    ELSE Append(InsertByNumber_Unstable(SubSeq(sorted, 1, Len(sorted) - 1), q),
                sorted[Len(sorted)])

\* list.sort(key=lambda q: q.number): stable
RECURSIVE InsertByNumber(_, _)
InsertByNumber(sorted, q) ==
    IF sorted = <<>> THEN <<q>>
    ELSE IF sorted[Len(sorted)].number <= q.number THEN Append(sorted, q)
    ELSE Append(InsertByNumber(SubSeq(sorted, 1, Len(sorted) - 1), q),
                sorted[Len(sorted)])
RECURSIVE SortByNumber(_)
SortByNumber(qs) ==
    IF qs = <<>> THEN <<>>
    ELSE InsertByNumber(SortByNumber(SubSeq(qs, 1, Len(qs) - 1)), qs[Len(qs)])

\* gabarito_text is <<>> for None (an empty text is as false as None)
extract_questions(pages, images_dir, gabarito_text) ==
    LET src == extract_text_and_images(pages, images_dir)
        question_blocks == split_into_question_blocks(src.full_text)
        question_images ==
            associate_images_to_questions(question_blocks, src.page_images)
        gabarito == IF gabarito_text # <<>> THEN extract_gabarito(gabarito_text)
                    ELSE extract_gabarito(src.full_text)
    IN  SortByNumber([i \in 1..Len(question_blocks) |->
            AssembleQuestion(question_blocks[i], gabarito, question_images)])

----------------------------------------------------------------------------
(* The response records of api.extract_questions (api.py 197-213)          *)

ToQuestionData(q) ==
    [number |-> q.number,
     stem |-> q.stem,
     options |-> [A |-> q.option_a, B |-> q.option_b, C |-> q.option_c,
                  D |-> q.option_d, E |-> q.option_e],
     correct_letter |-> q.correct_letter,
     has_image |-> q.has_image,
     images |-> q.images]

ToQuestionsData(qs) == [i \in 1..Len(qs) |-> ToQuestionData(qs[i])]

----------------------------------------------------------------------------
(* Record level: one block is parsed into a question record, the records   *)
(* go through the repair pass of the request layer (fix_empty_options) and *)
(* a response or any other JSON file through the batch repair              *)
(* (fix_json_file).                                                        *)

MaxLen == 4

SeqsUpTo(S, n) == UNION {[1..k -> S] : k \in 0..n}

Sp == C(" ")
Nl == C("\n")
QuestionHeader == <<Nl, Atom("QUESTAO"), Sp, C("1")>>

\* what follows the header of a block
BodyAlphabet == {Sp, Nl, C("A"), C("B"), C("."), Run(1)}
\* the stem of a record read from a JSON file
StemAlphabet == {Sp, Nl, C("A"), C("B"), Run(1)}

\* texts without a bare option letter: a word, a capitalised phrase, a text
\* one character short of the stem cap
Fragments == {<<Run(1)>>,
              <<C("Z"), Run(2), Sp, Run(1)>>,
              <<Run(MAX_STEM_LENGTH - 1)>>}

PlainFragments == {<<Run(1)>>, <<C("Z"), Run(2), Sp, Run(1)>>}

\* stem and options on one line: S A a B b C c D d E e
InlineOptions(S, a, b, c, d, e) ==
    S \o <<Sp, C("A"), Sp>> \o a \o <<Sp, C("B"), Sp>> \o b
      \o <<Sp, C("C"), Sp>> \o c \o <<Sp, C("D"), Sp>> \o d
      \o <<Sp, C("E"), Sp>> \o e

\* a block whose five options each begin a line: the letter, mark, the text
OptionLines(S, a, b, c, d, e, mark) ==
    QuestionHeader \o <<Sp>> \o S
      \o <<Nl, C("A")>> \o mark \o a \o <<Nl, C("B")>> \o mark \o b
      \o <<Nl, C("C")>> \o mark \o c \o <<Nl, C("D")>> \o mark \o d
      \o <<Nl, C("E")>> \o mark \o e

BareMark == <<Sp>>
PunctMarks == {<<C("."), Sp>>, <<C(")"), Sp>>, <<Sp, C("-"), Sp>>}
\* a stem that itself holds a bare A between spaces
StemWithA == <<Run(1), Sp, C("A"), Sp, Run(1)>>

\* option texts that a page footer, a page break or a line wrap got into
BleedOptions ==
    {<<Run(1), Sp, Atom("AREA"), Sp, Atom("LIVRE")>>,
     <<Run(1), Nl, C("-"), C("-"), C("-"), Sp, Atom("PAGE"), Sp, C("2"), Sp,
       C("-"), C("-"), C("-")>>,
     <<Run(1), Sp, Atom("SEGUNDA"), Sp, Atom("EDICAO")>>,
     <<C("."), Run(1)>>}

InlineBlocks ==
    {QuestionHeader \o <<Sp>> \o InlineOptions(S, a, b, c, d, e) :
        S \in Fragments, a \in Fragments, b \in Fragments,
        c \in Fragments, d \in Fragments, e \in Fragments}
BareLineBlocks ==
    {OptionLines(S, a, b, c, d, e, BareMark) :
        S \in Fragments, a \in Fragments, b \in Fragments,
        c \in Fragments, d \in Fragments, e \in Fragments}
PunctLineBlocks ==
    {OptionLines(S, a, b, <<Run(1)>>, <<Run(1)>>, e, mark) :
        S \in Fragments \cup {StemWithA}, a \in Fragments \cup {<<>>},
        b \in Fragments \cup {<<>>}, e \in {<<>>, <<Run(1)>>} \cup BleedOptions,
        mark \in PunctMarks}
ShortBlocks == {QuestionHeader \o body : body \in SeqsUpTo(BodyAlphabet, MaxLen)}

\* a block without option lines whose text holds the bare letter A twice
TwoBareABlocks ==
    {QuestionHeader \o <<Sp, C("A"), Sp>> \o f \o <<Sp, C("A"), Sp>> \o g :
        f \in PlainFragments, g \in PlainFragments}

BlockInputs ==
    ShortBlocks \cup InlineBlocks \cup BareLineBlocks \cup PunctLineBlocks
        \cup TwoBareABlocks

JsonRecord(stem, options) ==
    [number |-> 1, stem |-> stem, options |-> options,
     correct_letter |-> "A", has_image |-> FALSE, images |-> <<>>]
OptionsWith(l, text) == [NoOptions EXCEPT ![l] = text]
JsonOptions == {OptionsWith("A", <<Run(1)>>), OptionsWith("B", <<Run(1)>>),
                OptionsWith("C", <<Run(1)>>)}
JsonPairs ==
    {<<JsonRecord(s1, o1), JsonRecord(s2, o2)>> :
        s1 \in {<<Run(1)>>, <<Run(1), Sp, C("A"), Sp, C("B"), Sp, Run(1)>>},
        s2 \in {<<Run(1), Sp, C("A"), Sp, Run(1)>>},
        o1 \in {NoOptions, OptionsWith("A", <<Run(1)>>),
                OptionsWith("B", <<Run(1)>>)},
        o2 \in {NoOptions, OptionsWith("B", <<Run(1)>>)}}
JsonInputs ==
    {<<JsonRecord(stem, NoOptions)>> : stem \in SeqsUpTo(StemAlphabet, MaxLen)}
      \cup {<<JsonRecord(stem, o)>> :
               stem \in SeqsUpTo(StemAlphabet, MaxLen - 1), o \in JsonOptions}
      \cup {<<JsonRecord(InlineOptions(S, a, b, <<Run(1)>>, <<Run(1)>>, <<Run(1)>>),
                         NoOptions)>> :
               S \in Fragments, a \in Fragments, b \in Fragments}
      \cup JsonPairs

\* the locals of extract_questions before its first statement
NoRun == [full_text |-> <<>>, page_images |-> EmptyMap, question_blocks |-> <<>>,
          section |-> <<>>,
          question_images |-> EmptyMap, gabarito |-> EmptyMap]
NoDocument == pdf = <<>> /\ gabarito_file = <<>> /\ run = NoRun
NoReply == [kind |-> "none", extraction_id |-> 0, status |-> 0, questions |-> <<>>,
            images |-> {}, served |-> 0]
NoServer ==
    clock = 0 /\ fs = EmptyMap /\ log = <<>> /\ reply = NoReply /\ deleted = {}

InitRecord ==
    /\ \/ /\ pc = "block"
          /\ raw_block \in BlockInputs
          /\ questions = <<>>
       \/ /\ pc = "json"
          /\ raw_block = <<>>
          /\ questions \in JsonInputs
    /\ before = <<>>
    /\ NoDocument
    /\ NoServer

\* extract_questions on the one block, then the response records
Parse ==
    /\ pc = "block"
    /\ questions' = ToQuestionsData(
           <<AssembleQuestion([number |-> 1, block |-> raw_block, page |-> 1],
                              EmptyMap, EmptyMap)>>)
    /\ pc' = "parsed"
    /\ UNCHANGED <<raw_block, before, document_vars, server_vars>>

\* api.py 216: questions_data = fix_empty_options(questions_data)
ApiFix ==
    /\ pc = "parsed"
    /\ before' = questions
    /\ questions' = fix_empty_options(questions)
    /\ pc' = "api"
    /\ UNCHANGED <<raw_block, document_vars, server_vars>>

\* fix_json_file over a JSON file: a response of the request layer or any
\* other file of that shape
BatchFix ==
    /\ pc \in {"json", "api"}
    /\ before' = questions
    /\ questions' = fix_json_file(questions)
    /\ pc' = "batch"
    /\ UNCHANGED <<raw_block, document_vars, server_vars>>

\* fix_empty_options applied to the records it has returned
ApiFixAgain ==
    /\ pc = "api"
    /\ before' = questions
    /\ questions' = fix_empty_options(questions)
    /\ pc' = "api_again"
    /\ UNCHANGED <<raw_block, document_vars, server_vars>>

\* fix_json_file applied to the file it has written
BatchFixAgain ==
    /\ pc = "batch"
    /\ before' = questions
    /\ questions' = fix_json_file(questions)
    /\ pc' = "batch_again"
    /\ UNCHANGED <<raw_block, document_vars, server_vars>>

NextRecord == Parse \/ ApiFix \/ BatchFix \/ ApiFixAgain \/ BatchFixAgain

SpecRecord == InitRecord /\ [][NextRecord]_vars

----------------------------------------------------------------------------
(* Claims at the record level                                              *)

Repaired == pc \in {"api", "batch"}
Records == 1..Len(questions)
EmptyAB(q) == q.options["A"] = <<>> /\ q.options["B"] = <<>>
SameText(q, r) == q.stem = r.stem /\ q.options = r.options
ShortFragments == {f \in Fragments : TextLen(f) < MAX_STEM_LENGTH - 100}
FiveOptions(a, b, c, d, e) == [A |-> a, B |-> b, C |-> c, D |-> d, E |-> e]

\* C1: a record on which the repair pass is triggered (A and B empty) and
\* whose A and B are still empty after the re-scan keeps its stem and its
\* five options, in the request layer's repair and in the batch repair.
C1_UnfixedRecordsUntouched ==
    Repaired =>
        \A i \in Records :
            EmptyAB(before[i]) /\ EmptyAB(questions[i])
                => SameText(questions[i], before[i])

\* C2: a one-line stem S A a B b C c D d E e leaves the primary parse with
\* five empty options, and the repair pass then gives stem S and the options
\* a, b, c, d, e under their letters.
C2_InlineOptionsRecovered ==
    \A S \in ShortFragments, a \in ShortFragments, b \in ShortFragments,
       c \in ShortFragments, d \in ShortFragments, e \in ShortFragments :
        LET stem == InlineOptions(S, a, b, c, d, e) IN
            /\ pc = "parsed" /\ raw_block = QuestionHeader \o <<Sp>> \o stem
                   => questions[1].stem = stem /\ questions[1].options = NoOptions
            /\ Repaired /\ before[1].stem = stem /\ before[1].options = NoOptions
                   => /\ questions[1].stem = S
                      /\ questions[1].options = FiveOptions(a, b, c, d, e)

C8_CompleteRecordsUnchanged ==
    Repaired =>
        \A i \in Records :
            ~EmptyAB(before[i]) => questions[i] = before[i]
\* both repairs have run over a parsed record with an option A and a stem in
\* which the re-scan would find a boundary
C8_Witness ==
    /\ pc = "batch"
    /\ raw_block # <<>>
    /\ \E i \in Records :
           /\ ~EmptyAB(before[i])
           /\ \E k \in 1..Len(before[i].stem) : Pattern2At(before[i].stem, k)
           /\ questions[i] = before[i]

\* C9: every record the extraction returns has a stem of at most 8000
\* characters, before and after the repair pass, and a repaired stem is never
\* longer than the stem it replaces.
C9_StemAtMostCap ==
    /\ raw_block # <<>> =>
           \A i \in Records : TextLen(questions[i].stem) <= 8000
    /\ Repaired =>
           \A i \in Records :
               TextLen(questions[i].stem) <= TextLen(before[i].stem)
\* the parser cut the stem at the cap and the repair pass then changed it
C9_Witness ==
    /\ pc = "api"
    /\ TextLen(before[1].stem) = 8000
    /\ TextLen(StripHeader(preprocess_block(raw_block))) > 8000
    /\ questions[1].stem # before[1].stem

\* C10: every record has an options mapping with exactly the keys A, B, C,
\* D, E and a text (possibly empty) under each, after parsing and after the
\* repair pass.
C10_FiveOptionKeys ==
    \A i \in Records :
        /\ DOMAIN questions[i].options = {"A", "B", "C", "D", "E"}
        /\ \A l \in {"A", "B", "C", "D", "E"} :
               DOMAIN questions[i].options[l] = 1..Len(questions[i].options[l])
\* the repair pass rewrote a record from an option section with fewer than
\* five letters
C10_Witness ==
    /\ pc = "api"
    /\ questions[1].stem # before[1].stem
    /\ questions[1].options["B"] # <<>>
    /\ questions[1].options["C"] = <<>>

----------------------------------------------------------------------------
(* One run of RevalidaPDFExtractor.extract_questions over a document       *)

MaxHeaders == 2

Num(ds) == [i \in 1..Len(ds) |-> C(ds[i])]
\* the numbers that follow a header token: below, inside and above the
\* accepted range, of one to four digits
NumberStrings ==
    {Num(<<"0">>), Num(<<"1">>), Num(<<"2">>), Num(<<"3">>), Num(<<"2", "0", "0">>),
     Num(<<"2", "0", "1">>), Num(<<"2", "5", "0">>), Num(<<"1", "2", "3", "4">>),
     Num(<<"2", "0", "0", "0">>)}
\* a header line and the text of its question
HeaderLine(ns) == <<Nl, Atom("QUESTAO"), Sp>> \o ns \o <<Sp, Run(1)>>
RECURSIVE Concat(_)
Concat(ss) == IF ss = <<>> THEN <<>> ELSE Head(ss) \o Concat(Tail(ss))
QuestionTexts ==
    {Concat([i \in 1..Len(ns) |-> HeaderLine(ns[i])]) :
        ns \in SeqsUpTo(NumberStrings, MaxHeaders)}
\* an answer-key section at the end of the document, or none
KeySections ==
    {<<>>,
     <<Nl, Atom("GABARITO"), Nl, C("1"), Sp, C("B"), Nl, C("2"), C("-"), C("C")>>}
\* a separate answer-key file, or none
KeyFiles == {<<>>, <<C("1"), C("."), C("D"), Nl, C("3"), Sp, C("E")>>}
Page(text, images) == [text |-> text, images |-> images]
OnePageDocuments ==
    {<<Page(t \o k, n)>> : t \in QuestionTexts, k \in KeySections, n \in 0..1}
TwoPageDocuments ==
    {<<Page(HeaderLine(a), n), Page(HeaderLine(b) \o k, 2 - n)>> :
        a \in {Num(<<"1">>), Num(<<"2">>), Num(<<"2", "5", "0">>)},
        b \in {Num(<<"1">>), Num(<<"3">>)}, k \in KeySections, n \in 0..2}
\* a header that is the first line of its page, a body that goes on over a
\* page without header, a page whose own text quotes a page delimiter
PageAttributionDocuments ==
    {<<Page(Tail(HeaderLine(Num(<<"1">>))), 0), Page(<<Run(1)>>, 1),
       Page(Tail(HeaderLine(Num(<<"2">>))), 0)>>,
     <<Page(<<Run(1)>> \o PageDelimiter(9) \o Tail(HeaderLine(Num(<<"1">>))), 0),
       Page(HeaderLine(Num(<<"2">>)), 1)>>}
\* headers out of order, one number on two pages
UnorderedDocument ==
    <<Page(HeaderLine(Num(<<"2">>)), 0), Page(HeaderLine(Num(<<"1">>)), 1),
      Page(HeaderLine(Num(<<"1">>)), 0)>>
Documents ==
    OnePageDocuments \cup TwoPageDocuments \cup PageAttributionDocuments
        \cup {UnorderedDocument}

\* the directory the images are written to
ImagesDir == "images"

MaxKeyEntries == 2

\* one entry of an answer key, well formed or not
KeyEntries ==
    {<<C("1"), C("-"), C("A")>>, <<C("1"), Sp, C("B")>>, <<C("1"), C("."), C("C")>>,
     <<C("2"), C("B")>>, <<C("2"), Sp, C("-"), Sp, C("D")>>,
     <<C("2"), C("5"), C("0"), Sp, C("A")>>, <<C("0"), Sp, C("E")>>,
     <<C("1"), C("2"), C("3"), C("4"), Sp, C("A")>>,
     <<Run(1), C("1"), Sp, C("A")>>, <<C("2"), Sp, C("A"), Run(1)>>}
RECURSIVE JoinWithSpace(_)
JoinWithSpace(ss) ==
    IF ss = <<>> THEN <<>>
    ELSE IF Len(ss) = 1 THEN Head(ss)
    ELSE Head(ss) \o <<Sp>> \o JoinWithSpace(Tail(ss))
KeyLists == {JoinWithSpace(es) : es \in SeqsUpTo(KeyEntries, MaxKeyEntries)}
\* what stands between the head of an answer-key text and its tail: nothing
\* but a space, one of the three section markers, or lower-case text about
\* as long as the part that is scanned when there is no marker
KeyMiddles ==
    {<<Sp>>, <<Sp, Atom("GABARITO"), Nl>>, <<Sp, Atom("RESPOSTAS"), Sp>>,
     <<Sp, Atom("RESPOSTA"), Sp, Atom("OFICIAL"), Sp>>,
     <<Sp, Run(GABARITO_TAIL), Sp>>, <<Sp, Run(GABARITO_TAIL - 5), Sp>>}
KeyHeads == {<<>>, <<C("1"), C("-"), C("E")>>, <<C("1"), C("7"), Sp, C("C")>>,
             <<IDot(1)>>, <<C("2"), Sp, C("E"), Sp, IDot(11)>>}
KeyTexts == {h \o m \o t : h \in KeyHeads, m \in KeyMiddles, t \in KeyLists}
OneQuestion == <<Page(HeaderLine(Num(<<"1">>)), 0)>>

InitDocument ==
    /\ pc = "pdf"
    /\ \/ pdf \in Documents /\ gabarito_file \in KeyFiles
       \/ pdf = OneQuestion /\ gabarito_file \in KeyTexts
    /\ run = NoRun
    /\ raw_block = <<>> /\ questions = <<>> /\ before = <<>>
    /\ NoServer

\* full_text, page_images = self.extract_text_and_images()
ExtractTextAndImages ==
    /\ pc = "pdf"
    /\ LET src == extract_text_and_images(pdf, ImagesDir) IN
           run' = [run EXCEPT !.full_text = src.full_text,
                              !.page_images = src.page_images]
    /\ pc' = "text"
    /\ UNCHANGED <<raw_block, questions, before, pdf, gabarito_file, server_vars>>

\* question_blocks = self.split_into_question_blocks(full_text)
SplitIntoQuestionBlocks ==
    /\ pc = "text"
    /\ run' = [run EXCEPT
                  !.question_blocks = split_into_question_blocks(run.full_text)]
    /\ pc' = "blocks"
    /\ UNCHANGED <<raw_block, questions, before, pdf, gabarito_file, server_vars>>

\* question_images = self.associate_images_to_questions(question_blocks, page_images)
AssociateImagesToQuestions ==
    /\ pc = "blocks"
    /\ run' = [run EXCEPT
                  !.question_images =
                      associate_images_to_questions(run.question_blocks,
                                                    run.page_images)]
    /\ pc' = "images"
    /\ UNCHANGED <<raw_block, questions, before, pdf, gabarito_file, server_vars>>

\* gabarito = self.extract_gabarito(gabarito_text or full_text)
ExtractGabarito ==
    /\ pc = "images"
    /\ LET text == IF gabarito_file # <<>> THEN gabarito_file ELSE run.full_text
       IN  run' = [run EXCEPT !.section = gabarito_section(text),
                              !.gabarito = extract_gabarito(text)]
    /\ pc' = "gabarito"
    /\ UNCHANGED <<raw_block, questions, before, pdf, gabarito_file, server_vars>>

\* the loop over question_blocks and the sort by number
AnalyseQuestions ==
    /\ pc = "gabarito"
    /\ questions' =
           SortByNumber([i \in 1..Len(run.question_blocks) |->
               AssembleQuestion(run.question_blocks[i], run.gabarito,
                                run.question_images)])
    /\ pc' = "extracted"
    /\ UNCHANGED <<raw_block, before, document_vars, server_vars>>

NextDocument ==
    \/ ExtractTextAndImages
    \/ SplitIntoQuestionBlocks
    \/ AssociateImagesToQuestions
    \/ ExtractGabarito
    \/ AnalyseQuestions

SpecDocument == InitDocument /\ [][NextDocument]_vars

----------------------------------------------------------------------------
(* Claims about a run over a document                                      *)

\* C3: a question whose number has no entry in the extracted answer key has
\* the empty string as its correct_letter; no letter is assigned that the
\* answer key did not supply.
C3_NoKeyEntryNoLetter ==
    pc = "extracted" =>
        \A i \in 1..Len(questions) :
            IF questions[i].number \in DOMAIN run.gabarito
            THEN questions[i].correct_letter = run.gabarito[questions[i].number]
            ELSE questions[i].correct_letter = ""

\* a header token at a line start at i, followed by a decimal number (all of
\* its digits) below 1 or above 200
OutOfRangeHeaderAt(text, i) ==
    /\ text[i].ch = "\n"
    /\ LET w == SkipWs(text, i + 1) IN
           /\ w <= Len(text)
           /\ text[w].ch = "QUESTAO"
           /\ LET d == SkipWs(text, w + 1)
                  e == SkipDigits(text, d)
              IN  /\ e > d
                  /\ LET n == ToInt(text, d, e) IN n < 1 \/ n > 200
\* the block is the slice of the text that starts at i
BlockStartsAt(text, b, i) ==
    /\ i + Len(b.block) - 1 <= Len(text)
    /\ b.block = SubSeq(text, i, i + Len(b.block) - 1)
    /\ i + Len(b.block) <= Len(text) => text[i + Len(b.block)].ch = "\n"

\* C5: no block starts at a header whose number, of any digit count, is
\* below 1 or above 200, and every block has a number from 1 to 200.
C5_OutOfRangeHeaderNoBlock ==
    pc \in {"blocks", "images", "gabarito", "extracted"} =>
        /\ \A i \in 1..Len(run.full_text) :
               OutOfRangeHeaderAt(run.full_text, i) =>
                   \A k \in 1..Len(run.question_blocks) :
                       ~BlockStartsAt(run.full_text, run.question_blocks[k], i)
        /\ \A k \in 1..Len(run.question_blocks) :
               run.question_blocks[k].number \in 1..200

----------------------------------------------------------------------------
(* The request layer: POST /extract of api.py                              *)

MaxClock == 2
MaxRequests == 2

\* an uploaded exam file: whether its name ends in .pdf, whether fitz can
\* open it, and its pages
PdfUpload(name_ok, readable, pages) ==
    [name_ok |-> name_ok, readable |-> readable, pages |-> pages]
\* an uploaded answer-key file: whether one was sent, whether it can be read
\* (a text file of valid UTF-8, or a PDF that fitz opens), and its text
GabaritoUpload(given, decodable, text) ==
    [given |-> given, decodable |-> decodable, text |-> text]

ExamWithImage ==
    <<Page(HeaderLine(Num(<<"2">>)), 1), Page(HeaderLine(Num(<<"1">>)), 0)>>
\* an exam whose one question has its options on the line of the stem
ExamInline ==
    <<Page(HeaderLine(Num(<<"1">>))
               \o <<Sp, C("A"), Sp, Run(1), Sp, C("B"), Sp, Run(1)>>, 0)>>
PdfUploads ==
    {PdfUpload(TRUE, TRUE, ExamWithImage),
     PdfUpload(TRUE, TRUE, ExamInline),
     PdfUpload(TRUE, FALSE, <<>>),
     PdfUpload(FALSE, TRUE, ExamWithImage)}
GabaritoUploads ==
    {GabaritoUpload(FALSE, TRUE, <<>>),
     GabaritoUpload(TRUE, TRUE, <<C("1"), Sp, C("C")>>),
     GabaritoUpload(TRUE, FALSE, <<>>)}
\* the write of the handler that the file system refuses, if any; "cleanup"
\* is the rmtree of cleanup_temp_files, whose failure is caught and printed
Faults == {"none", "save_pdf", "save_gabarito", "save_json", "save_metadata",
           "cleanup"}

\* datetime.now().strftime("%Y%m%d_%H%M%S"): one id per second
ExtractionId(now) == now

\* a directory right after mkdir
EmptyDir == [pdf |-> FALSE, gabarito |-> FALSE, output |-> FALSE,
             images_dir |-> FALSE, images |-> {}, json |-> <<>>,
             has_json |-> FALSE, metadata |-> <<>>]
\* extraction_dir.mkdir(exist_ok=True)
Mkdir(files, id) == IF id \in DOMAIN files THEN files ELSE (id :> EmptyDir) @@ files
\* shutil.rmtree(extraction_dir, ignore_errors=True)
Rmtree(files, id) == [d \in DOMAIN files \ {id} |-> files[d]]
WriteDir(files, id, content) == [files EXCEPT ![id] = content]

Response(status, id, created, questions_data) ==
    [status |-> status, extraction_id |-> id, created |-> created,
     questions |-> questions_data]
Served(pdf_file, gabarito_upload, response) ==
    [pdf_file |-> pdf_file, gabarito_upload |-> gabarito_upload,
     response |-> response]

RECURSIVE SumImages(_)
SumImages(qs) == IF qs = <<>> THEN 0 ELSE Len(Head(qs).images) + SumImages(Tail(qs))
Metadata(id, qs) ==
    <<[extraction_id |-> id, total_questions |-> Len(qs),
       questions_with_images |->
           Cardinality({i \in 1..Len(qs) : qs[i].has_image}),
       total_images |-> SumImages(qs)]>>

\* the image files extract_text_and_images writes into output/images
ImageFiles(pages, images_dir) ==
    UNION {{PageImages(pages, images_dir)[p][k] :
               k \in 1..Len(PageImages(pages, images_dir)[p])} :
           p \in DOMAIN PageImages(pages, images_dir)}

\* RevalidaPDFExtractor.__init__ and extract_text_and_images: the output
\* directory, its images directory, and the image files in it
WriteImages(dir, pages, images_dir) ==
    [dir EXCEPT !.output = TRUE, !.images_dir = TRUE,
                !.images = dir.images \cup ImageFiles(pages, images_dir)]

\* shutil.rmtree(self.images_dir), unless it fails
cleanup_temp_files(dir, fault) ==
    IF fault = "cleanup" THEN dir
    ELSE [dir EXCEPT !.images_dir = FALSE, !.images = {}]

\* save_to_json: the questions file is written, then the images directory
\* is removed
save_to_json(dir, extracted, fault) ==
    cleanup_temp_files([dir EXCEPT !.json = extracted, !.has_json = TRUE], fault)

\* the handler of POST /extract from its first statement to its response;
\* it has no await, so it runs without interleaving
PostExtract(pdf_file, gabarito_upload, fault) ==
    LET id == ExtractionId(clock)
        made == Mkdir(fs, id)
        with_pdf == WriteDir(made, id, [made[id] EXCEPT !.pdf = TRUE])
        with_key == IF gabarito_upload.given
                    THEN WriteDir(with_pdf, id, [with_pdf[id] EXCEPT !.gabarito = TRUE])
                    ELSE with_pdf
        Reply(status, created, files, questions_data) ==
            /\ fs' = files
            /\ log' = Append(log, Served(pdf_file, gabarito_upload,
                                  Response(status, id, created, questions_data)))
    IN  IF ~pdf_file.name_ok THEN Reply(400, FALSE, fs, <<>>)
        \* outside the try: the exception leaves the handler as it is
        ELSE IF fault = "save_pdf" THEN Reply(500, TRUE, made, <<>>)
        ELSE IF gabarito_upload.given /\ fault = "save_gabarito"
             THEN Reply(500, TRUE, with_pdf, <<>>)
        ELSE IF gabarito_upload.given /\ ~gabarito_upload.decodable
             THEN Reply(500, TRUE, with_key, <<>>)
        \* inside the try: except Exception removes the directory
        ELSE IF ~pdf_file.readable \/ fault \in {"save_json", "save_metadata"}
             THEN Reply(500, TRUE, Rmtree(with_key, id), <<>>)
        ELSE \E extracted \in
                    {extract_questions(pdf_file.pages, id, gabarito_upload.text)} :
                 Reply(200, TRUE,
                       WriteDir(with_key, id,
                           [save_to_json(WriteImages(with_key[id], pdf_file.pages, id),
                                         extracted, fault)
                               EXCEPT !.metadata = Metadata(id, extracted)]),
                       fix_empty_options(ToQuestionsData(extracted)))

InitApi ==
    /\ pc = "serving"
    /\ clock = 1
    /\ fs = EmptyMap
    /\ log = <<>>
    /\ reply = NoReply
    /\ deleted = {}
    /\ raw_block = <<>> /\ questions = <<>> /\ before = <<>>
    /\ NoDocument

Tick ==
    /\ pc = "serving"
    /\ clock < MaxClock
    /\ clock' = clock + 1
    /\ UNCHANGED <<raw_block, questions, before, pc, document_vars, fs, log,
                   reply, deleted>>

\* the requests served so far
Requests == Len(log) + reply.served

Post ==
    /\ pc = "serving"
    /\ Requests < MaxRequests
    /\ \E pdf_file \in PdfUploads, gabarito_upload \in GabaritoUploads,
          fault \in Faults :
           PostExtract(pdf_file, gabarito_upload, fault)
    /\ deleted' = deleted \ {ExtractionId(clock)}
    /\ UNCHANGED <<raw_block, questions, before, pc, document_vars, clock, reply>>

\* the ids a client may ask for
ExtractionIds == 1..MaxClock
Answer(kind, id, status, questions_data) ==
    [kind |-> kind, extraction_id |-> id, status |-> status,
     questions |-> questions_data, images |-> {}, served |-> reply.served + 1]

\* GET /extraction/{extraction_id}: the questions are read from the file
\* save_to_json has written
get_extraction(id) ==
    IF id \notin DOMAIN fs THEN Answer("get", id, 404, <<>>)
    ELSE IF fs[id].metadata = <<>> THEN Answer("get", id, 404, <<>>)
    ELSE IF ~fs[id].has_json THEN Answer("get", id, 404, <<>>)
    ELSE Answer("get", id, 200, fs[id].json)

GetExtraction ==
    /\ pc = "serving"
    /\ Requests < MaxRequests
    /\ \E id \in ExtractionIds : reply' = get_extraction(id)
    /\ UNCHANGED <<raw_block, questions, before, pc, document_vars, clock, fs, log,
                   deleted>>

\* GET /extraction/{extraction_id}/images: the files of output/images
list_extraction_images(id) ==
    IF id \notin DOMAIN fs \/ ~fs[id].images_dir
    THEN Answer("images", id, 404, <<>>)
    ELSE [Answer("images", id, 200, <<>>) EXCEPT !.images = fs[id].images]

ListExtractionImages ==
    /\ pc = "serving"
    /\ Requests < MaxRequests
    /\ \E id \in ExtractionIds : reply' = list_extraction_images(id)
    /\ UNCHANGED <<raw_block, questions, before, pc, document_vars, clock, fs, log,
                   deleted>>

\* DELETE /extraction/{extraction_id}
DeleteExtraction ==
    /\ pc = "serving"
    /\ Requests < MaxRequests
    /\ \E id \in ExtractionIds :
           IF id \notin DOMAIN fs
           THEN /\ reply' = Answer("delete", id, 404, <<>>)
                /\ UNCHANGED <<fs, deleted>>
           ELSE /\ fs' = Rmtree(fs, id)
                /\ deleted' = deleted \cup {id}
                /\ reply' = Answer("delete", id, 200, <<>>)
    /\ UNCHANGED <<raw_block, questions, before, pc, document_vars, clock, log>>

NextApi ==
    Tick \/ Post \/ GetExtraction \/ ListExtractionImages \/ DeleteExtraction

SpecApi == InitApi /\ [][NextApi]_vars

----------------------------------------------------------------------------
(* Claims about the request layer                                          *)

\* C6: when a POST /extract request fails after its extraction directory
\* was created, at whatever step, the directory and all it holds are gone
\* when the failure response is sent.
C6_FailedRequestLeavesNothing ==
    log # <<>> =>
        LET last == log[Len(log)].response IN
            last.status # 200 /\ last.created
                => last.extraction_id \notin DOMAIN fs

SameInput(a, b) ==
    a.pdf_file = b.pdf_file /\ a.gabarito_upload = b.gabarito_upload
BothExtracted(a, b) == a.response.status = 200 /\ b.response.status = 200
FileName(ref) == <<ref.page, ref.img>>
\* a record without the directories of its image references
Content(q) ==
    [number |-> q.number, stem |-> q.stem, options |-> q.options,
     correct_letter |-> q.correct_letter, has_image |-> q.has_image,
     images |-> [m \in 1..Len(q.images) |-> FileName(q.images[m])]]

C11_PostLeavesOtherRunsAlone ==
    [][Len(log') > Len(log) =>
          \A id \in DOMAIN fs :
              fs[id].has_json =>
                  /\ id \in DOMAIN fs'
                  /\ fs'[id].pdf
                  /\ fs'[id].json = fs[id].json
                  /\ fs'[id].metadata = fs[id].metadata]_vars

\* an answer-key entry at i: a number of one to three digits that begins a
\* word, an optional hyphen or period with optional whitespace around it, and
\* one letter A to E that ends a word
EntryLetter(s, i) ==
    LET d == SkipDigits(s, i)
        w == SkipWs(s, d)
    IN  IF w <= Len(s) /\ (s[w].ch = "-" \/ s[w].ch = ".") THEN SkipWs(s, w + 1) ELSE w
EntryNumber(s, i) == ToInt(s, i, SkipDigits(s, i))
EntryAt(s, i) ==
    /\ s[i].ch \in {"0", "1", "2", "3", "4", "5", "6", "7", "8", "9"}
    /\ (i > 1 => ~IsWordCh(s[i - 1]))
    /\ SkipDigits(s, i) <= i + 3
    /\ EntryLetter(s, i) <= Len(s)
    /\ s[EntryLetter(s, i)] \in {C("A"), C("B"), C("C"), C("D"), C("E")}
    /\ (EntryLetter(s, i) < Len(s) => ~IsWordCh(s[EntryLetter(s, i) + 1]))
Entries(s) == {i \in 1..Len(s) : EntryAt(s, i)}
EntriesOf(s, n) == {i \in Entries(s) : EntryNumber(s, i) = n}
KeyScanned == pc \in {"gabarito", "extracted"}

\* C12: the answer key maps each number from 1 to 200 that has an entry in
\* the scanned section to the letter of its last entry, and holds no other
\* number: none outside 1 to 200, and none without an entry.
C12_LastEntryWins ==
    KeyScanned =>
        /\ DOMAIN run.gabarito =
               {EntryNumber(run.section, i) : i \in Entries(run.section)}
                   \cap 1..200
        /\ \A n \in DOMAIN run.gabarito :
               LET last == CHOOSE i \in EntriesOf(run.section, n) :
                               \A j \in EntriesOf(run.section, n) : j <= i
               IN  run.gabarito[n] = run.section[EntryLetter(run.section, last)].ch
\* a number with two entries of different letters, beside an entry whose
\* number is above 200
C12_Witness ==
    /\ KeyScanned
    /\ \E i \in Entries(run.section), j \in Entries(run.section) :
           /\ i < j
           /\ EntryNumber(run.section, i) = EntryNumber(run.section, j)
           /\ run.section[EntryLetter(run.section, i)]
                  # run.section[EntryLetter(run.section, j)]
    /\ \E i \in Entries(run.section) : EntryNumber(run.section, i) > 200

\* the headers of the text whose number is from 1 to 200, in text order
ValidHeader(m) == InRange(m.number)
ValidHeaders(text) == SelectSeq(HeaderMatches(text, 1), ValidHeader)
BlocksSplit == pc \in {"blocks", "images", "gabarito", "extracted"}

\* C13: the k-th block runs from the k-th header numbered 1 to 200 up to the
\* start of the next such header, or to the end of the text after the last
\* one; a header candidate with a number outside 1 to 200 does not end it.
C13_BlockRunsToNextValidHeader ==
    BlocksSplit =>
        LET text == run.full_text
            valid == ValidHeaders(text)
        IN  /\ Len(run.question_blocks) = Len(valid)
            /\ \A k \in 1..Len(valid) :
                   run.question_blocks[k].block =
                       SubSeq(text, valid[k].start,
                              IF k < Len(valid) THEN valid[k + 1].start - 1
                              ELSE Len(text))

\* the images extracted from a page: the entry of the page in the page-images
\* map, or no image when the page has no entry
ImagesOfPage(page) ==
    IF page \in DOMAIN run.page_images THEN run.page_images[page] ELSE <<>>

\* C14: the images of each question are those of the page its own block
\* starts on, also when two blocks on different pages carry the same number.
C14_ImagesOfOwnPage ==
    pc = "extracted" =>
        LET blocks == SortByNumber(run.question_blocks) IN
            \A k \in 1..Len(questions) :
                questions[k].images = ImagesOfPage(blocks[k].page)

\* a fragment of a running header or footer begins somewhere in the text
HasBleed(t) ==
    \E i \in 1..Len(t) :
        \/ AreaLivreAt(t, i)
        \/ PageMarkerAt(t, i)
        \/ PrimeiraAt(t, i)
        \/ SegundaAt(t, i)
Cleaned(t) == ~HasBleed(t) /\ (t # <<>> => t[1].ch # ".")

\* C15: every option of the records the request layer returns is cleaned,
\* whether the first parse or the repair produced it: it holds no free-area
\* marker, no page delimiter, no edition banner, and begins with no period.
C15_OptionsCleaned ==
    pc = "api" =>
        \A k \in Records : \A l \in LetterSet : Cleaned(questions[k].options[l])

\* the text the answer key is read from
KeyText == IF gabarito_file # <<>> THEN gabarito_file ELSE run.full_text
Markers(text) == {i \in 1..Len(text) : MarkerAt(text, i)}
\* sec is the text t without some of its first characters
CharSuffix(sec, t) ==
    \/ sec = <<>>
    \/ /\ Len(sec) <= Len(t)
       /\ LET d == Len(t) - Len(sec) IN
              /\ \A i \in 2..Len(sec) : sec[i] = t[d + i]
              /\ sec[1].n <= t[d + 1].n
              /\ sec[1].n = t[d + 1].n => sec[1] = t[d + 1]
\* lower-casing changes the length of no character before element i
SameLengthLowered(text, i) == \A j \in 1..(i - 1) : text[j].ch # "IDOT"
PairInSection(n, letter) ==
    \E i \in EntriesOf(run.section, n) :
        run.section[EntryLetter(run.section, i)].ch = letter

PageStart(p) == Len(FullText(pdf, p - 1)) + 1
PageOf(i) == Max({p \in 1..Len(pdf) : PageStart(p) <= i})

\* C17: the origin page of every block is the number of the page whose text
\* holds the header of the block, also when the header is the first line of
\* the page and when the body of the block goes on over later pages.
C17_OriginPageIsHeaderPage ==
    BlocksSplit =>
        LET valid == ValidHeaders(run.full_text) IN
            \A k \in 1..Len(run.question_blocks) :
                k <= Len(valid) =>
                    run.question_blocks[k].page = PageOf(valid[k].start)

\* the records in the order of the blocks, before the sort
Assembled ==
    [k \in 1..Len(run.question_blocks) |->
        AssembleQuestion(run.question_blocks[k], run.gabarito, run.question_images)]
\* the records of number n, in the order of the sequence
Numbered(qs, n) == LET HasNumber(q) == q.number = n IN SelectSeq(qs, HasNumber)

\* C18: the questions returned are in non-decreasing order of number, one
\* record for each block of the segmentation, none dropped for a number
\* that occurs twice, and the records of one number keep the order in which
\* their headers stand in the document.
C18_SortedStableComplete ==
    pc = "extracted" =>
        /\ \A i, j \in 1..Len(questions) :
               i < j => questions[i].number <= questions[j].number
        /\ Len(questions) = Len(run.question_blocks)
        /\ Len(questions) = Len(ValidHeaders(run.full_text))
        /\ \E assembled \in {Assembled} :
               \A n \in {assembled[k].number : k \in 1..Len(assembled)}
                         \cup {questions[k].number : k \in 1..Len(questions)} :
                   Numbered(questions, n) = Numbered(assembled, n)
\* a header of a greater number stands before one of a smaller number, and
\* two headers of one number give different records
C18_Witness ==
    /\ pc = "extracted"
    /\ \E i, j \in 1..Len(run.question_blocks) :
           i < j /\ run.question_blocks[i].number > run.question_blocks[j].number
    /\ \E i, j \in 1..Len(questions) :
           i < j /\ questions[i].number = questions[j].number
                 /\ questions[i] # questions[j]

\* C19: the repair is idempotent: applied to its own output, either
\* repair changes no record, also when the stem holds a boundary from
\* which neither option A nor option B is recovered.
C19_RepairIdempotent ==
    pc \in {"api_again", "batch_again"} => questions = before

\* the stem and the five options of a record of the POST response, and of
\* a record of the stored file
ReturnedText(q) ==
    <<q.stem, q.options["A"], q.options["B"], q.options["C"], q.options["D"],
      q.options["E"]>>
StoredText(q) ==
    <<q.stem, q.option_a, q.option_b, q.option_c, q.option_d, q.option_e>>
\* the last POST request that used the id
LastPost(id) ==
    Max({i \in 1..Len(log) :
            log[i].response.created /\ log[i].response.extraction_id = id})

\* C20: when the last POST /extract that used id X succeeded and X was not
\* deleted since, a GET /extraction/X returns the stem and the five options
\* of every question as the POST response did, the changes of the repair
\* included.
C20_GetReturnsWhatPostReturned ==
    [][(/\ reply'.served > reply.served
        /\ reply'.kind = "get"
        /\ reply'.extraction_id \notin deleted
        /\ \E i \in 1..Len(log) :
               log[i].response.created
                   /\ log[i].response.extraction_id = reply'.extraction_id
        /\ log[LastPost(reply'.extraction_id)].response.status = 200)
           => /\ reply'.status = 200
              /\ LET posted ==
                         log[LastPost(reply'.extraction_id)].response.questions
                 IN  /\ Len(reply'.questions) = Len(posted)
                     /\ \A k \in 1..Len(posted) :
                            StoredText(reply'.questions[k])
                                = ReturnedText(posted[k])]_vars

\* the image references of the questions a POST response returned
ReturnedImages(i) ==
    UNION {{log[i].response.questions[k].images[m] :
               m \in 1..Len(log[i].response.questions[k].images)} :
           k \in 1..Len(log[i].response.questions)}

\* C21: when the last POST /extract that used id X succeeded and X was not
\* deleted since, a GET /extraction/X/images succeeds, and every image the
\* questions of the POST response refer to is a file in storage that the
\* listing names.
C21_ImagesKeptAndListed ==
    [][(/\ reply'.served > reply.served
        /\ reply'.kind = "images"
        /\ reply'.extraction_id \notin deleted
        /\ \E i \in 1..Len(log) :
               log[i].response.created
                   /\ log[i].response.extraction_id = reply'.extraction_id
        /\ log[LastPost(reply'.extraction_id)].response.status = 200)
           => /\ reply'.status = 200
              /\ reply'.extraction_id \in DOMAIN fs
              /\ ReturnedImages(LastPost(reply'.extraction_id))
                     \subseteq fs[reply'.extraction_id].images
              /\ ReturnedImages(LastPost(reply'.extraction_id))
                     \subseteq reply'.images]_vars

====
